---- MODULE Spec2Model ----
(***************************************************************************)
(* FortiTwin MVP: the interview engine (app/interview_engine.py), the      *)
(* session store (app/models.py) and the HTTP handlers (app/main.py).      *)
(*                                                                         *)
(* Representation.                                                         *)
(*   - A Python str is a sequence of non-empty pieces; "" is <<>>.  The    *)
(*     piece " " is whitespace, every other piece is opaque text.          *)
(*   - An Optional[str] is a record [some, text]; None has some = FALSE.   *)
(*   - A Dict[str, float] is a set of <<label, value>> pairs, the value in *)
(*     hundredths (0.5 is 50).                                             *)
(*   - A call result is [raised, value, calls, llm_out]: whether the call  *)
(*     raised to its caller, the value returned, how many outbound remote  *)
(*     calls it made, and what _llm_call handed back.                      *)
(***************************************************************************)
EXTENDS Integers, Sequences, FiniteSets, TLC

VARIABLES
    mode,    \* InterviewEngine.mode: "gemini" | "offline"
    client,  \* InterviewEngine.client: "GenerativeModel" | "None"
    store,   \* SessionStore._store: session id -> Session
    last     \* the last operation: its inputs and its outcome

vars == <<mode, client, store, last>>

----------------------------------------------------------------------------
(* Bounds of the model *)

MaxRawLen == 2        \* pieces in a text the remote service returns
MaxTranscript == 5    \* entries in a session's transcript
MaxEvents == 1        \* security events kept per session

----------------------------------------------------------------------------
(* Python values *)

None == [some |-> FALSE, text |-> <<>>]
Some(t) == [some |-> TRUE, text |-> t]

\* truthiness of an Optional[str]: None and "" are falsy
Truthy(o) == o.some /\ o.text # <<>>

WS == " "

\* dict.get(key, default) on a set of <<label, value>> pairs
DictGet(d, key, default) ==
    IF \E p \in d : p[1] = key
    THEN (CHOOSE p \in d : p[1] = key)[2]
    ELSE default

RECURSIVE lstrip(_)
lstrip(t) == IF t # <<>> /\ Head(t) = WS THEN lstrip(Tail(t)) ELSE t

RECURSIVE rstrip(_)
rstrip(t) ==
    IF t # <<>> /\ t[Len(t)] = WS THEN rstrip(SubSeq(t, 1, Len(t) - 1)) ELSE t

\* the reply passed on as received
strip_identity(t) == t

\* str.strip(): leading and trailing whitespace removed
strip(t) == rstrip(lstrip(t))

----------------------------------------------------------------------------
(* Input domains *)

JobTitles == {"Backend Engineer", "Data Analyst"}
Companies == {"Acme"}
Personalities == {"Default Manager", "Startup CTO", "Unknown Persona"}
RagContexts == {<<>>, <<"RAG">>}
Answers == {<<>>, <<"ANSWER">>}
EventTypes == {"suspicious_tab_switch"}
Impacts == {0, 45, 46, 75, 76, 80, 120}

\* the pieces of a remote reply: whitespace, prose, and two JSON object texts
RawPieces == {WS, "Q", "{A}", "{B}"}

RECURSIVE SeqsUpTo(_, _)
SeqsUpTo(S, n) ==
    IF n = 0 THEN {<<>>}
    ELSE LET shorter == SeqsUpTo(S, n - 1)
         IN  shorter \cup {Append(t, x) : t \in {u \in shorter : Len(u) = n - 1}, x \in S}

RawTexts == SeqsUpTo(RawPieces, MaxRawLen)

\* what client.generate_content / resp.text does: a text, or an exception
RemoteOutcomes ==
    {[kind |-> "text", text |-> t] : t \in RawTexts}
        \cup {[kind |-> "raise", text |-> <<>>]}

EmotionCtxs ==
    { {},
      {<<"confident", 80>>},
      {<<"nervous", 30>>},
      {<<"nervous", 50>>},
      {<<"nervous", 51>>},
      {<<"nervous", 80>>, <<"confident", 20>>} }

\* what the two emotion providers' get_signals may return: the primary any
\* mapping, the empty one included; the fallback always some mapping
HumeSignals == EmotionCtxs
MockSignals == EmotionCtxs \ {{}}

----------------------------------------------------------------------------
(* interview_engine.py *)

PERSONALITY_PRESETS ==
    [n \in {"Default Manager", "Startup CTO", "FAANG Manager", "Finance Recruiter"} |->
        CASE n = "Default Manager"   -> [tone |-> "professional", difficulty |-> "medium"]
          [] n = "Startup CTO"       -> [tone |-> "direct", difficulty |-> "high"]
          [] n = "FAANG Manager"     -> [tone |-> "structured", difficulty |-> "high"]
          [] n = "Finance Recruiter" -> [tone |-> "formal", difficulty |-> "medium"]]

\* InterviewEngine.__init__: key is whether GEMINI_API_KEY is set, init_ok
\* whether genai.configure / GenerativeModel succeed
__init__(key, init_ok) ==
    IF key
    THEN IF init_ok
         THEN [mode |-> "gemini", client |-> "GenerativeModel"]
         ELSE [mode |-> "offline", client |-> "None"]
    ELSE [mode |-> "offline", client |-> "None"]

\* _llm_call with one slip each: the mode gate dropped, the except clause
\* dropped, the call re-issued after a failure
_llm_call_no_gate(r) ==
    IF r.kind = "raise"
    THEN [raised |-> FALSE, out |-> <<>>, calls |-> 1]
    ELSE [raised |-> FALSE, out |-> strip(r.text), calls |-> 1]

_llm_call_no_except(r) ==
    IF mode = "gemini" /\ client # "None"
    THEN IF r.kind = "raise"
         THEN [raised |-> TRUE, out |-> <<>>, calls |-> 1]
         ELSE [raised |-> FALSE, out |-> strip(r.text), calls |-> 1]
    ELSE [raised |-> FALSE, out |-> <<>>, calls |-> 0]

_llm_call_retry(r) ==
    IF mode = "gemini" /\ client # "None"
    THEN IF r.kind = "raise" \/ strip(r.text) = <<>>
         THEN [raised |-> FALSE, out |-> <<>>, calls |-> 2]
         ELSE [raised |-> FALSE, out |-> strip(r.text), calls |-> 1]
    ELSE [raised |-> FALSE, out |-> <<>>, calls |-> 0]

\* InterviewEngine._llm_call; r is what the remote service does with the
\* one generate_content call
_llm_call(r) ==
    IF mode = "gemini" /\ client # "None"
    THEN IF r.kind = "raise"
         THEN [raised |-> FALSE, out |-> <<>>, calls |-> 1]
         ELSE [raised |-> FALSE, out |-> strip(r.text), calls |-> 1]
    ELSE [raised |-> FALSE, out |-> <<>>, calls |-> 0]

\* InterviewEngine._emotion_ctx: primary and fallback are what the two
\* providers' get_signals return
_emotion_ctx(primary, fallback) ==
    IF primary = {} THEN fallback ELSE primary

\* _persona without the default preset for unknown names
_persona_strict(personality) ==
    IF personality \in DOMAIN PERSONALITY_PRESETS
    THEN PERSONALITY_PRESETS[personality]
    ELSE [tone |-> "unknown", difficulty |-> "medium"]

\* InterviewEngine._persona
_persona(personality) ==
    IF personality \in DOMAIN PERSONALITY_PRESETS
    THEN PERSONALITY_PRESETS[personality]
    ELSE PERSONALITY_PRESETS["Default Manager"]

NERVOUS_THRESHOLD == 50

DEEPER_QUESTION ==
    "Can you dive deeper into your last answer and describe a concrete example with outcomes?"
MATCHING_QUESTION ==
    "What experience do you have that directly matches this role? Refer to relevant projects."
GENERIC_QUESTION == "Tell me about a challenging project you led end-to-end."
SUPPORTIVE_REMARK == "I'll keep it supportive. "

\* _offline_question with the nervousness test made non-strict
_offline_question_ge(job_title, persona, rag_context, prev_answer, emotion_ctx, security_hint) ==
    LET base0 == <<"As a ", persona.tone, " interviewer for a ", job_title, ", ">>
        base1 == IF Truthy(security_hint)
                 THEN base0 \o <<"I noticed a potential distraction (">>
                            \o security_hint.text \o <<"). Please stay focused. ">>
                 ELSE base0
        base2 == IF DictGet(emotion_ctx, "nervous", 0) >= NERVOUS_THRESHOLD
                 THEN base1 \o <<SUPPORTIVE_REMARK>>
                 ELSE base1
    IN  IF Truthy(prev_answer) THEN base2 \o <<DEEPER_QUESTION>>
        ELSE IF rag_context # <<>> THEN base2 \o <<MATCHING_QUESTION>>
        ELSE base2 \o <<GENERIC_QUESTION>>

\* InterviewEngine._offline_question
_offline_question(job_title, persona, rag_context, prev_answer, emotion_ctx, security_hint) ==
    LET base0 == <<"As a ", persona.tone, " interviewer for a ", job_title, ", ">>
        base1 == IF Truthy(security_hint)
                 THEN base0 \o <<"I noticed a potential distraction (">>
                            \o security_hint.text \o <<"). Please stay focused. ">>
                 ELSE base0
        base2 == IF DictGet(emotion_ctx, "nervous", 0) > NERVOUS_THRESHOLD
                 THEN base1 \o <<SUPPORTIVE_REMARK>>
                 ELSE base1
    IN  IF Truthy(prev_answer) THEN base2 \o <<DEEPER_QUESTION>>
        ELSE IF rag_context # <<>> THEN base2 \o <<MATCHING_QUESTION>>
        ELSE base2 \o <<GENERIC_QUESTION>>

\* InterviewEngine._generate_question; the prompt it assembles goes to the
\* remote service, whose reply r does not depend on it
_generate_question(job_title, company, personality, rag_context, prev_answer, emotion_ctx, security_hint, r) ==
    LET persona == _persona(personality)
        out == _llm_call(r)
    IN  IF out.raised
        THEN [raised |-> TRUE, value |-> <<>>, calls |-> out.calls, llm_out |-> out.out]
        ELSE IF out.out # <<>>
        THEN [raised |-> FALSE, value |-> out.out, calls |-> out.calls, llm_out |-> out.out]
        ELSE [raised |-> FALSE,
              value |-> _offline_question(job_title, persona, rag_context,
                                          prev_answer, emotion_ctx, security_hint),
              calls |-> out.calls, llm_out |-> out.out]

\* InterviewEngine.first_question
first_question(job_title, company, personality, rag_context, primary, fallback, r) ==
    _generate_question(job_title, company, personality, rag_context,
                       None, _emotion_ctx(primary, fallback), None, r)

\* InterviewEngine.next_question
next_question(job_title, company, personality, rag_context, prev_answer, emotion_ctx, security_hint, r) ==
    _generate_question(job_title, company, personality, rag_context,
                       prev_answer, emotion_ctx, security_hint, r)

BASELINE_SCORE == 7

\* the fixed offline scores of InterviewEngine.score
BASELINE ==
    [k \in {"Role Fit", "Culture Fit", "Honesty", "Communication", "Notes"} |->
        IF k = "Notes"
        THEN "Baseline offline scoring. Provide GEMINI_API_KEY for smarter evaluation."
        ELSE BASELINE_SCORE]

\* the objects the JSON texts "{A}" and "{B}" decode to: one with the five
\* fields, one with a single field and a value outside 0..10
JSON_OBJECTS ==
    [p \in {"{A}", "{B}"} |->
        IF p = "{A}"
        THEN [k \in {"Role Fit", "Culture Fit", "Honesty", "Communication", "Notes"} |->
                 IF k = "Notes" THEN "Strong candidate." ELSE 9]
        ELSE [k \in {"Role Fit"} |-> 11]]

\* json.loads: whitespace around the one JSON value is skipped; anything
\* else (no value, prose, extra data) raises
json_loads(t) ==
    LET body == SelectSeq(t, LAMBDA p : p # WS)
    IN  IF Len(body) = 1 /\ body[1] \in DOMAIN JSON_OBJECTS
        THEN [raised |-> FALSE, value |-> JSON_OBJECTS[body[1]]]
        ELSE [raised |-> TRUE, value |-> BASELINE]

\* score filling the fields a parsed object lacks from the baseline
score_merge(transcript, job_title, company, r) ==
    LET raw == _llm_call(r)
        parsed == json_loads(raw.out)
    IN  IF raw.raised
        THEN [raised |-> TRUE, value |-> BASELINE, calls |-> raw.calls, llm_out |-> raw.out]
        ELSE IF raw.out # <<>> /\ ~parsed.raised
        THEN [raised |-> FALSE,
              value |-> [k \in DOMAIN BASELINE |->
                            IF k \in DOMAIN parsed.value THEN parsed.value[k] ELSE BASELINE[k]],
              calls |-> raw.calls, llm_out |-> raw.out]
        ELSE [raised |-> FALSE, value |-> BASELINE, calls |-> raw.calls, llm_out |-> raw.out]

\* InterviewEngine.score
score(transcript, job_title, company, r) ==
    LET raw == _llm_call(r)
        parsed == json_loads(raw.out)
    IN  IF raw.raised
        THEN [raised |-> TRUE, value |-> BASELINE, calls |-> raw.calls, llm_out |-> raw.out]
        ELSE IF raw.out # <<>> /\ ~parsed.raised
        THEN [raised |-> FALSE, value |-> parsed.value, calls |-> raw.calls, llm_out |-> raw.out]
        ELSE [raised |-> FALSE, value |-> BASELINE, calls |-> raw.calls, llm_out |-> raw.out]

\* security_events.normalize_event: the metadata is reduced to the impact
\* (in hundredths) the normalizer computes from it
normalize_event(event_type, metadata) == metadata.impact

HIGH_IMPACT == 75
MODERATE_IMPACT == 45

\* security_hint_from_event with non-strict thresholds
security_hint_from_event_ge(event_type, metadata) ==
    LET impact == normalize_event(event_type, metadata)
    IN  IF impact >= HIGH_IMPACT THEN <<event_type, " (high impact)">>
        ELSE IF impact >= MODERATE_IMPACT THEN <<event_type, " (moderate impact)">>
        ELSE <<event_type, " (low impact)">>

\* InterviewEngine.security_hint_from_event
security_hint_from_event(event_type, metadata) ==
    LET impact == normalize_event(event_type, metadata)
    IN  IF impact > HIGH_IMPACT THEN <<event_type, " (high impact)">>
        ELSE IF impact > MODERATE_IMPACT THEN <<event_type, " (moderate impact)">>
        ELSE <<event_type, " (low impact)">>

----------------------------------------------------------------------------
(* The engine called directly *)

OptAnswers == {None} \cup {Some(a) : a \in Answers}
OptHints ==
    {None, Some(<<>>)}
        \cup {Some(security_hint_from_event(e, [impact |-> 80])) : e \in EventTypes}
Transcripts ==
    {<<>>, <<[role |-> "interviewer", text |-> <<"Q">>],
             [role |-> "candidate", text |-> <<"ANSWER">>]>>}

NoCall == [raised |-> FALSE, value |-> <<>>, calls |-> 0, llm_out |-> <<>>]

\* no call in progress: the caller holds no result
Idle == [op |-> "idle"]

Init ==
    /\ \E key \in BOOLEAN, init_ok \in BOOLEAN :
          LET e == __init__(key, init_ok)
          IN  mode = e.mode /\ client = e.client
    /\ store = <<>>
    /\ last = Idle

CallFirstQuestion ==
    /\ last = Idle
    /\ \E job_title \in JobTitles, company \in Companies, personality \in Personalities,
       rag_context \in RagContexts, primary \in HumeSignals,
       fallback \in MockSignals, r \in RemoteOutcomes :
        /\ last' = [op |-> "first_question", job_title |-> job_title,
                    personality |-> personality, rag_context |-> rag_context,
                    prev_answer |-> None,
                    emotion_ctx |-> _emotion_ctx(primary, fallback),
                    security_hint |-> None, r |-> r,
                    res |-> first_question(job_title, company, personality,
                                           rag_context, primary, fallback, r)]
        /\ UNCHANGED <<mode, client, store>>

CallNextQuestion ==
    /\ last = Idle
    /\ \E job_title \in JobTitles, company \in Companies, personality \in Personalities,
       rag_context \in RagContexts, prev_answer \in OptAnswers,
       emotion_ctx \in EmotionCtxs, security_hint \in OptHints, r \in RemoteOutcomes :
        /\ last' = [op |-> "next_question", job_title |-> job_title,
                    personality |-> personality, rag_context |-> rag_context,
                    prev_answer |-> prev_answer, emotion_ctx |-> emotion_ctx,
                    security_hint |-> security_hint, r |-> r,
                    res |-> next_question(job_title, company, personality, rag_context,
                                          prev_answer, emotion_ctx, security_hint, r)]
        /\ UNCHANGED <<mode, client, store>>

CallScore ==
    /\ last = Idle
    /\ \E transcript \in Transcripts, job_title \in JobTitles, company \in Companies,
       r \in RemoteOutcomes :
        /\ last' = [op |-> "score", r |-> r,
                    res |-> score(transcript, job_title, company, r)]
        /\ UNCHANGED <<mode, client, store>>

CallSecurityHint ==
    /\ last = Idle
    /\ \E event_type \in EventTypes, impact \in Impacts :
        /\ last' = [op |-> "security_hint", event_type |-> event_type,
                    impact |-> impact,
                    hint |-> security_hint_from_event(event_type, [impact |-> impact])]
        /\ UNCHANGED <<mode, client, store>>

\* the caller consumes the result; the engine is ready for the next call
Return ==
    /\ last # Idle
    /\ last' = Idle
    /\ UNCHANGED <<mode, client, store>>

Next == Return \/ CallFirstQuestion \/ CallNextQuestion \/ CallScore \/ CallSecurityHint

Spec == Init /\ [][Next]_vars

----------------------------------------------------------------------------
(* models.py: the session store *)

\* the ids uuid4 may hand out, and an id no session was ever given
SessionIds == {"s1"}
RequestIds == SessionIds \cup {"unknown"}

NoneSession == [id |-> "None"]

\* truthiness of what SessionStore.get returned: a Session object is truthy
Falsy(sess) == sess.id = "None"

\* SessionStore.create
create(sid, candidate_id, job_title, company, personality, rag_context, m) ==
    [id |-> sid, candidate_id |-> candidate_id, job_title |-> job_title,
     company |-> company, personality |-> personality, transcript |-> <<>>,
     security_events |-> <<>>, emotion_context |-> {},
     rag_context |-> rag_context, mode |-> m]

\* SessionStore.get: a KeyError for an id that is not stored
get(session_id) ==
    IF session_id \notin DOMAIN store
    THEN [raised |-> TRUE, exc |-> "KeyError", sess |-> NoneSession]
    ELSE [raised |-> FALSE, exc |-> "", sess |-> store[session_id]]

\* SessionStore.update
update(st, session) == [k \in DOMAIN st \cup {session.id} |->
                           IF k = session.id THEN session ELSE st[k]]

----------------------------------------------------------------------------
(* main.py: the HTTP handlers *)

AppJobTitles == {"Backend Engineer"}
AppPersonalities == {"Startup CTO", "Unknown Persona"}
AppAnswers == {<<>>, <<"ANSWER">>}
AppEmotionSignals == {{<<"nervous", 80>>}}
AppHumeSignals == {{}} \cup AppEmotionSignals
AppMockSignals == {{<<"nervous", 30>>}}
AppImpacts == {46, 80}
AppRemoteOutcomes ==
    {[kind |-> "text", text |-> <<"Q">>], [kind |-> "text", text |-> <<"{A}">>],
     [kind |-> "text", text |-> <<WS>>], [kind |-> "raise", text |-> <<>>]}

DEFAULT_EMOTION_CTX == {<<"nervous", 30>>, <<"confident", 50>>, <<"empathetic_need", 20>>}

\* the outcome of a handler as the HTTP client sees it
Ok(response) == [kind |-> "ok", status |-> 200, detail |-> "", response |-> response]
HttpError(status, detail) ==
    [kind |-> "http", status |-> status, detail |-> detail, response |-> <<>>]
Unhandled(exc) == [kind |-> "raise", status |-> 500, detail |-> exc, response |-> <<>>]

\* the response with the Session default mode in place of ENGINE.mode
StartInterviewResponse_default(sid, q) ==
    [session_id |-> sid, first_question |-> q, mode |-> "offline"]

\* the StartInterviewResponse of start_interview
StartInterviewResponse(sid, q) ==
    [session_id |-> sid, first_question |-> q, mode |-> mode]

\* POST /interview/start
start_interview ==
    /\ last = Idle
    /\ \E sid \in SessionIds \ DOMAIN store, job_title \in AppJobTitles,
          company \in Companies, personality \in AppPersonalities,
          rag_query \in BOOLEAN, retrieved \in RagContexts,
          primary \in AppHumeSignals, fallback \in AppMockSignals,
          r \in AppRemoteOutcomes :
        LET rag_ctx == IF rag_query THEN retrieved ELSE <<>>
            sess == create(sid, "c1", job_title, company, personality, rag_ctx, mode)
            res == first_question(job_title, company, personality, rag_ctx,
                                  primary, fallback, r)
            sess2 == [sess EXCEPT !.transcript =
                         Append(@, [role |-> "interviewer", text |-> res.value])]
        IN  IF res.raised
            THEN /\ store' = update(store, sess)
                 /\ last' = [op |-> "start_interview", session_id |-> sid, found |-> TRUE,
                             unchanged |-> FALSE, outcome |-> Unhandled("Exception"),
                             engine_calls |-> 1, calls |-> res.calls,
                             llm_out |-> res.llm_out, offline_q |-> <<>>]
            ELSE /\ store' = update(store, sess2)
                 /\ last' = [op |-> "start_interview", session_id |-> sid, found |-> TRUE,
                             unchanged |-> FALSE,
                             outcome |-> Ok(StartInterviewResponse(sid, res.value)),
                             engine_calls |-> 1, calls |-> res.calls,
                             llm_out |-> res.llm_out,
                             offline_q |-> _offline_question(job_title, _persona(personality),
                                              rag_ctx, None,
                                              _emotion_ctx(primary, fallback), None)]
    /\ UNCHANGED <<mode, client>>

\* the outcome of a handler whose session lookup did not yield a session
NotFound(op, session_id, got) ==
    [op |-> op, session_id |-> session_id, found |-> FALSE, unchanged |-> TRUE,
     outcome |-> IF got.raised THEN Unhandled(got.exc)
                 ELSE HttpError(404, "Session not found"),
     engine_calls |-> 0, calls |-> 0, llm_out |-> <<>>, offline_q |-> <<>>]

\* POST /interview/next
main_next_question ==
    /\ last = Idle
    /\ \E session_id \in RequestIds, candidate_answer \in AppAnswers,
          r \in AppRemoteOutcomes :
        LET got == get(session_id)
            sess == got.sess
        IN  IF got.raised \/ Falsy(sess)
            THEN /\ last' = NotFound("next_question", session_id, got)
                 /\ UNCHANGED store
            ELSE LET sess1 == [sess EXCEPT !.transcript =
                                  Append(@, [role |-> "candidate", text |-> candidate_answer])]
                     security_hint ==
                         IF sess.security_events # <<>>
                         THEN LET ev == sess.security_events[Len(sess.security_events)]
                              IN  Some(security_hint_from_event(ev.event_type, ev.metadata))
                         ELSE None
                     emotion_ctx == IF sess.emotion_context # {}
                                    THEN sess.emotion_context
                                    ELSE DEFAULT_EMOTION_CTX
                     res == next_question(sess.job_title, sess.company, sess.personality,
                                          sess.rag_context, Some(candidate_answer),
                                          emotion_ctx, security_hint, r)
                     sess2 == [sess1 EXCEPT !.transcript =
                                  Append(@, [role |-> "interviewer", text |-> res.value])]
                     response == [session_id |-> sess.id, question |-> res.value,
                                  hints |-> [security_hint |-> security_hint,
                                             emotion_ctx |-> emotion_ctx]]
                 IN  /\ Len(sess.transcript) + 2 <= MaxTranscript
                     /\ store' = update(store, IF res.raised THEN sess1 ELSE sess2)
                     /\ last' = [op |-> "next_question", session_id |-> session_id,
                                 found |-> TRUE, unchanged |-> FALSE,
                                 outcome |-> IF res.raised THEN Unhandled("Exception")
                                             ELSE Ok(response),
                                 engine_calls |-> 1, calls |-> res.calls,
                                 llm_out |-> res.llm_out, offline_q |-> <<>>]
    /\ UNCHANGED <<mode, client>>

\* POST /interview/event
post_event ==
    /\ last = Idle
    /\ \E session_id \in RequestIds, event_type \in EventTypes, impact \in AppImpacts :
        LET got == get(session_id)
            sess == got.sess
            ev == [session_id |-> session_id, event_type |-> event_type,
                   metadata |-> [impact |-> impact]]
        IN  IF got.raised \/ Falsy(sess)
            THEN /\ last' = NotFound("post_event", session_id, got)
                 /\ UNCHANGED store
            ELSE /\ Len(sess.security_events) < MaxEvents
                 /\ store' = update(store, [sess EXCEPT !.security_events = Append(@, ev)])
                 /\ last' = [op |-> "post_event", session_id |-> session_id,
                             found |-> TRUE, unchanged |-> FALSE,
                             outcome |-> Ok([ok |-> TRUE]),
                             engine_calls |-> 0, calls |-> 0,
                             llm_out |-> <<>>, offline_q |-> <<>>]
    /\ UNCHANGED <<mode, client>>

\* POST /interview/emotion
post_emotion ==
    /\ last = Idle
    /\ \E session_id \in RequestIds, signals \in AppEmotionSignals :
        LET got == get(session_id)
            sess == got.sess
        IN  IF got.raised \/ Falsy(sess)
            THEN /\ last' = NotFound("post_emotion", session_id, got)
                 /\ UNCHANGED store
            ELSE /\ store' = update(store, [sess EXCEPT !.emotion_context = signals])
                 /\ last' = [op |-> "post_emotion", session_id |-> session_id,
                             found |-> TRUE, unchanged |-> (store' = store),
                             outcome |-> Ok([ok |-> TRUE]),
                             engine_calls |-> 0, calls |-> 0,
                             llm_out |-> <<>>, offline_q |-> <<>>]
    /\ UNCHANGED <<mode, client>>

\* POST /interview/score
main_score ==
    /\ last = Idle
    /\ \E session_id \in RequestIds, r \in AppRemoteOutcomes :
        LET got == get(session_id)
            sess == got.sess
        IN  IF got.raised \/ Falsy(sess)
            THEN /\ last' = NotFound("score", session_id, got)
                 /\ UNCHANGED store
            ELSE LET res == score(sess.transcript, sess.job_title, sess.company, r)
                 IN  /\ last' = [op |-> "score", session_id |-> session_id,
                                 found |-> TRUE, unchanged |-> TRUE,
                                 outcome |-> IF res.raised THEN Unhandled("Exception")
                                             ELSE Ok([session_id |-> sess.id,
                                                      scores |-> res.value]),
                                 engine_calls |-> 1, calls |-> res.calls,
                                 llm_out |-> res.llm_out, offline_q |-> <<>>]
                     /\ UNCHANGED store
    /\ UNCHANGED <<mode, client>>

NextApp ==
    Return \/ start_interview \/ main_next_question \/ post_event \/ post_emotion
        \/ main_score

SpecApp == Init /\ [][NextApp]_vars

----------------------------------------------------------------------------
(* Properties *)

QuestionOps == {"first_question", "next_question"}
EngineOps == QuestionOps \cup {"score"}

\* the offline synthesizer's output for the inputs of the last question call
OfflineForLast ==
    _offline_question(last.job_title, _persona(last.personality), last.rag_context,
                      last.prev_answer, last.emotion_ctx, last.security_hint)

\* the remote service was called and replied with the text t
RemoteReplied == last.res.calls >= 1 /\ last.r.kind = "text"

\* no remote text: the service was not called, the call failed, or it
\* replied with the empty text
NoRemoteText ==
    last.res.calls = 0 \/ last.r.kind = "raise" \/ last.r.text = <<>>

AllWhitespace(t) == \A i \in 1..Len(t) : t[i] = WS

\* q is t without its leading and trailing whitespace
IsStripOf(q, t) ==
    \E i \in 0..Len(t) :
        /\ i + Len(q) <= Len(t)
        /\ SubSeq(t, i + 1, i + Len(q)) = q
        /\ \A k \in 1..i : t[k] = WS
        /\ \A k \in (i + Len(q) + 1)..Len(t) : t[k] = WS
        /\ q # <<>> => (q[1] # WS /\ q[Len(q)] # WS)

\* C1: first_question, next_question and score never raise to their caller
\* and return a defined value (a non-empty question, a score object), for
\* every persona, remote outcome, score text and optional input.
C1_NeverRaises ==
    last.op \in EngineOps =>
        /\ ~last.res.raised
        /\ last.op \in QuestionOps => Len(last.res.value) > 0
        /\ last.op = "score" => DOMAIN last.res.value # {}

C1_Witness ==
    /\ last.op = "next_question"
    /\ mode = "gemini"
    /\ last.r.kind = "raise"
    /\ last.personality = "Unknown Persona"
    /\ last.prev_answer = None
    /\ last.emotion_ctx = {}
    /\ last.security_hint = None
    /\ ~last.res.raised

\* C2 as stated: the question path returns exactly the remote text when the
\* remote call yields non-empty text, the offline synthesizer's output when
\* it yields empty text or fails, and always a non-empty string.
C2_Original ==
    last.op \in QuestionOps =>
        /\ (RemoteReplied /\ last.r.text # <<>>) => last.res.value = last.r.text
        /\ NoRemoteText => last.res.value = OfflineForLast
        /\ last.res.value # <<>>

\* C2 amended: the question path returns the remote text with its leading
\* and trailing whitespace removed when that leaves something, the offline
\* synthesizer's output when the remote text is empty or only whitespace,
\* the call fails or no call is made, and always a non-empty string.
C2_Amended ==
    last.op \in QuestionOps =>
        /\ (RemoteReplied /\ ~AllWhitespace(last.r.text)) =>
               IsStripOf(last.res.value, last.r.text)
        /\ (NoRemoteText \/ AllWhitespace(last.r.text)) =>
               last.res.value = OfflineForLast
        /\ last.res.value # <<>>

C2_Witness ==
    /\ last.op = "next_question"
    /\ last.res.calls = 1
    /\ last.r.kind = "text"
    /\ last.r.text = <<WS, "Q">>
    /\ last.res.value = <<"Q">>

\* C3: score returns the fixed baseline whenever the remote scoring output
\* is empty or fails to parse, and the parsed object unchanged whenever it is
\* non-empty and parses; the result is one of the two, never a mix.
C3_ScoreBaselineOrParsed ==
    last.op = "score" =>
        LET raw == last.res.llm_out
            parsed == json_loads(raw)
            replied == json_loads(last.r.text)
        IN  /\ (raw = <<>> \/ parsed.raised) => last.res.value = BASELINE
            /\ (raw # <<>> /\ ~parsed.raised) => last.res.value = parsed.value
            /\ (NoRemoteText \/ replied.raised) => last.res.value = BASELINE
            /\ (RemoteReplied /\ last.r.text # <<>> /\ ~replied.raised) =>
                   last.res.value = replied.value
            /\ \/ last.res.value = BASELINE
               \/ \E p \in DOMAIN JSON_OBJECTS : last.res.value = JSON_OBJECTS[p]

C3_Witness ==
    /\ last.op = "score"
    /\ last.res.calls = 1
    /\ last.r.kind = "text"
    /\ last.r.text = <<"{B}", WS>>
    /\ last.res.value = JSON_OBJECTS["{B}"]
    /\ last.res.value # BASELINE

C4_Inv ==
    (mode = "offline" /\ last.op \in EngineOps) =>
        /\ last.res.calls = 0
        /\ last.op \in QuestionOps => last.res.value = OfflineForLast
        /\ last.op = "score" => last.res.value = BASELINE

\* C4: an engine constructed without a remote capability (credential unset
\* or client initialization failed) stays offline for good: no remote call
\* is attempted, every question is the offline synthesizer's output, every
\* score is the baseline; and no operation ever changes the mode.
C4_OfflinePermanent ==
    /\ [](client = "None" <=> mode = "offline")
    /\ []C4_Inv
    /\ [][mode' = mode /\ client' = client]_vars

C4_Witness ==
    /\ mode = "offline"
    /\ client = "None"
    /\ last.op = "score"
    /\ last.r.kind = "text"
    /\ last.r.text = <<"{A}">>
    /\ last.res.calls = 0
    /\ last.res.value = BASELINE

\* C5 as stated: each orchestration call makes exactly one outbound remote
\* call.
C5_Original ==
    last.op \in EngineOps => last.res.calls = 1

\* C5 amended: each orchestration call makes exactly one outbound remote
\* call when the engine is in remote mode and none when it is in offline
\* mode; a failed or empty remote call is never re-issued.
C5_Amended ==
    last.op \in EngineOps =>
        /\ last.res.calls = (IF mode = "gemini" THEN 1 ELSE 0)
        /\ last.res.calls <= 1

C5_Witness ==
    /\ last.op = "first_question"
    /\ mode = "gemini"
    /\ last.r.kind = "raise"
    /\ last.res.calls = 1
    /\ last.res.value = OfflineForLast

\* C6: security_hint_from_event labels an impact x high iff x > 0.75,
\* moderate iff 0.45 < x <= 0.75 and low iff x <= 0.45; 0.75 is moderate,
\* 0.45 is low, and exactly one label is returned.
C6_HintThresholds ==
    last.op = "security_hint" =>
        LET x == last.impact
            high == <<last.event_type, " (high impact)">>
            moderate == <<last.event_type, " (moderate impact)">>
            low == <<last.event_type, " (low impact)">>
        IN  /\ last.hint = high <=> x > 75
            /\ last.hint = moderate <=> (45 < x /\ x <= 75)
            /\ last.hint = low <=> x <= 45
            /\ Cardinality({h \in {high, moderate, low} : h = last.hint}) = 1

C6_Witness ==
    /\ last.op = "security_hint"
    /\ last.impact = 75
    /\ last.hint = <<last.event_type, " (moderate impact)">>

\* the case of C7: first_question, a persona name outside the registry, an
\* empty retrieval context, and a remote capability that returns empty text
C7_Case ==
    /\ last.op = "first_question"
    /\ last.personality \notin DOMAIN PERSONALITY_PRESETS
    /\ last.rag_context = <<>>
    /\ last.res.calls = 0 \/ (last.r.kind = "text" /\ last.r.text = <<>>)

\* C7 as stated: in that case the question is the professional opening
\* followed directly by the generic opener, whatever the emotion providers
\* supply.
C7_Original ==
    C7_Case =>
        last.res.value = <<"As a ", "professional", " interviewer for a ",
                           last.job_title, ", ", GENERIC_QUESTION>>

\* C7 amended: in that case the question is the professional opening, then
\* the supportive remark iff the supplied emotion mapping gives nervousness
\* above 0.5, then the generic opener.
C7_Amended ==
    C7_Case =>
        last.res.value =
            <<"As a ", "professional", " interviewer for a ", last.job_title, ", ">>
                \o (IF \E p \in last.emotion_ctx : p[1] = "nervous" /\ p[2] > 50
                    THEN <<SUPPORTIVE_REMARK>> ELSE <<>>)
                \o <<GENERIC_QUESTION>>

C7_Witness ==
    /\ C7_Case
    /\ mode = "gemini"
    /\ <<"nervous", 80>> \in last.emotion_ctx
    /\ last.res.value[6] = SUPPORTIVE_REMARK
    /\ last.res.value[7] = GENERIC_QUESTION

\* C8: the offline synthesizer's output is the opening, the refocusing
\* remark iff a security hint is present, the supportive remark iff
\* nervousness is strictly above 0.5 (none given counts as 0), and one
\* closing question: deeper-example if a prior answer is present, else
\* matching-experience if retrieval context is present, else generic.
C8_OfflineStructure ==
    (last.op \in QuestionOps /\ last.res.llm_out = <<>>) =>
        LET opening == <<"As a ", _persona(last.personality).tone,
                         " interviewer for a ", last.job_title, ", ">>
            refocus == IF last.security_hint.some /\ last.security_hint.text # <<>>
                       THEN <<"I noticed a potential distraction (">>
                                \o last.security_hint.text
                                \o <<"). Please stay focused. ">>
                       ELSE <<>>
            support == IF \E p \in last.emotion_ctx : p[1] = "nervous" /\ p[2] > 50
                       THEN <<SUPPORTIVE_REMARK>> ELSE <<>>
            closing == IF last.prev_answer.some /\ last.prev_answer.text # <<>>
                       THEN <<DEEPER_QUESTION>>
                       ELSE IF last.rag_context # <<>> THEN <<MATCHING_QUESTION>>
                       ELSE <<GENERIC_QUESTION>>
        IN  /\ last.res.value = opening \o refocus \o support \o closing
            /\ (~last.prev_answer.some /\ ~last.security_hint.some
                  /\ last.emotion_ctx = {} /\ last.rag_context = <<>>) =>
                   last.res.value = opening \o <<GENERIC_QUESTION>>

C8_Witness ==
    /\ last.op = "next_question"
    /\ last.res.llm_out = <<>>
    /\ last.emotion_ctx = {<<"nervous", 50>>}
    /\ Truthy(last.security_hint)
    /\ Truthy(last.prev_answer)
    /\ last.rag_context # <<>>
    /\ Len(last.res.value) = 10
    /\ last.res.value[10] = DEEPER_QUESTION

\* start_interview answered with a question
Started == last.op = "start_interview" /\ last.outcome.kind = "ok"

\* C9 as stated: the mode reported alongside a question is offline whenever
\* the question came from the offline synthesizer and remote only when the
\* question is remote-generated text.
C9_Original ==
    Started =>
        /\ last.llm_out = <<>> => last.outcome.response.mode = "offline"
        /\ last.outcome.response.mode = "gemini" => last.llm_out # <<>>

\* C9 amended: the question path returns the question text alone;
\* start_interview reports beside it the mode the engine was constructed in.
\* That mode is offline only when the question is the offline synthesizer's
\* output, and a remote-generated question is always reported as remote; an
\* engine constructed in remote mode still reports remote when the per-call
\* remote attempt failed and the question is the offline synthesizer's.
C9_Amended ==
    Started =>
        /\ last.outcome.response.mode = mode
        /\ last.outcome.response.mode = "offline" =>
               (last.llm_out = <<>> /\ last.outcome.response.first_question = last.offline_q)
        /\ last.llm_out # <<>> =>
               (last.outcome.response.mode = "gemini"
                  /\ last.outcome.response.first_question = last.llm_out)

C9_Witness ==
    /\ Started
    /\ mode = "gemini"
    /\ last.calls = 1
    /\ last.llm_out = <<>>
    /\ last.outcome.response.first_question = last.offline_q
    /\ last.outcome.response.mode = "gemini"

\* C10: for a session id that is not in the store, next_question,
\* post_event, post_emotion and score end in 404 "Session not found", make
\* no engine or remote call, and leave the store unchanged.
C10_NotFound404 ==
    (last.op \in {"next_question", "post_event", "post_emotion", "score"}
        /\ ~last.found) =>
        /\ last.outcome.kind = "http"
        /\ last.outcome.status = 404
        /\ last.outcome.detail = "Session not found"
        /\ last.engine_calls = 0
        /\ last.calls = 0
        /\ last.unchanged

====
